---- MODULE Spec2Model ----
(***************************************************************************)
(* swifi: server selection, fallback orchestration and measurement         *)
(* sessions.  Two entry points exist in the repository: the library        *)
(* orchestrator SpeedTest::execute (src/src/speed_test.rs) and the binary  *)
(* main -> do_test_config (src/src/bin/swifi_cli.rs, src/src/test.rs).     *)
(* The variable `entry` selects which of the two a behaviour runs.         *)
(***************************************************************************)
EXTENDS Integers, Sequences, FiniteSets, TLC

\* ------------------------------------------------------------------ bounds
\* Largest number of servers the remote directory holds.
MaxCatalog == 11

\* ------------------------------------------------------- program constants
TOP_X_NUM_SERVERS == 10
DEFAULT_SERVER_COUNT == 3
MBPS_DIVISOR == 1000000

\* ----------------------------------------------------- Option and Result
None == <<>>
Some(v) == <<v>>
IsSome(o) == Len(o) = 1
Unwrap(o) == o[1]

Ok(v) == [ok |-> TRUE, val |-> v, err |-> "-"]
Err(e) == [ok |-> FALSE, val |-> <<>>, err |-> e]

\* ------------------------------------------------------------ id parsing
DigitChars == {"0", "1", "2", "3", "4", "5", "6", "7", "8", "9"}

DigitVal(c) ==
  CASE c = "0" -> 0 [] c = "1" -> 1 [] c = "2" -> 2 [] c = "3" -> 3
    [] c = "4" -> 4 [] c = "5" -> 5 [] c = "6" -> 6 [] c = "7" -> 7
    [] c = "8" -> 8 [] c = "9" -> 9

\* u32::MAX = 4294967295, as decimal digits (it exceeds the checker's
\* integer range, so the overflow test compares digit strings).
U32MaxDigits == <<"4", "2", "9", "4", "9", "6", "7", "2", "9", "5">>

RECURSIVE StripZeros(_)
StripZeros(ds) ==
  IF ds # <<>> /\ Head(ds) = "0" THEN StripZeros(Tail(ds)) ELSE ds

RECURSIVE DigitsGreater(_, _)
\* a > b for two digit strings of equal length
DigitsGreater(a, b) ==
  IF a = <<>> THEN FALSE
  ELSE IF DigitVal(Head(a)) # DigitVal(Head(b))
       THEN DigitVal(Head(a)) > DigitVal(Head(b))
       ELSE DigitsGreater(Tail(a), Tail(b))

OverflowsU32(ds) ==
  LET sig == StripZeros(ds) IN
    \/ Len(sig) > Len(U32MaxDigits)
    \/ Len(sig) = Len(U32MaxDigits) /\ DigitsGreater(sig, U32MaxDigits)

RECURSIVE DigitsValue(_, _)
DigitsValue(ds, acc) ==
  IF ds = <<>> THEN acc
  ELSE DigitsValue(Tail(ds), acc * 10 + DigitVal(Head(ds)))

\* str::parse::<u32>: an optional leading '+', then one or more decimal
\* digits whose value fits 32 bits; anything else is an error.
ParseU32(s) ==
  IF s = <<>> THEN Err("ParseIntError")
  ELSE LET body == IF Head(s) = "+" THEN Tail(s) ELSE s IN
    IF body = <<>> THEN Err("ParseIntError")
    ELSE IF \E i \in 1..Len(body) : body[i] \notin DigitChars
         THEN Err("ParseIntError")
    ELSE IF OverflowsU32(body) THEN Err("ParseIntError")
    ELSE Ok(DigitsValue(body, 0))

\* ------------------------------------------------------------------ inputs
\* The remote directory, already sorted by distance (the engine's
\* servers_sorted_by_distance): n servers, ids 1..n by position, with an
\* optional repeated id.  Distances are non-decreasing with ties.
DupModes == {"none", "near", "far"}

DirectoryId(n, dup, i) ==
  IF dup = "near" /\ i = 2 THEN 1
  ELSE IF dup = "far" /\ i = n THEN 1
  ELSE i

Directory(n, dup) ==
  [i \in 1..n |-> [id |-> DirectoryId(n, dup, i), distance_km |-> (i + 1) \div 2]]

Directories ==
  {Directory(n, "none") : n \in 0..MaxCatalog}
    \cup {Directory(n, "near") : n \in 2..MaxCatalog}
    \cup {Directory(n, "far") : n \in 3..MaxCatalog}

\* --server values a user may type (strings as character sequences)
IdStrings ==
  { <<"a", "b", "c">>, <<>>, <<"-", "1">>, <<"+", "1">>, <<"0", "2">>,
    <<"1">>, <<"3">>, <<"1", "1">>, <<"9", "9">>,
    <<"4", "2", "9", "4", "9", "6", "7", "2", "9", "6">> }

ServerArgs == {None} \cup {Some(s) : s \in IdStrings}

\* raw bits-per-second figures the engine may report
BpsValues == {8500000, 42000000}

Entries == {"execute", "swifi_cli"}

\* ------------------------------------------- texts and display formatting
\* Longest text enumerated exhaustively.
MaxText == 3

MAX_SPONSOR_LENGTH == 20
MAX_NAME_LENGTH == 20

\* A text is a sequence of characters; "U+00E9" stands for a character
\* whose UTF-8 encoding takes two bytes.
Alphabet == {"a", "b", "U+00E9"}

Utf8(c) == IF c = "U+00E9" THEN <<"C3", "A9">> ELSE <<c>>

RECURSIVE ToBytes(_)
\* str::as_bytes
ToBytes(t) == IF t = <<>> THEN <<>> ELSE Utf8(Head(t)) \o ToBytes(Tail(t))

\* str::len: the length in bytes
StrLen(t) == Len(ToBytes(t))

\* str::is_char_boundary
IsCharBoundary(t, n) == \E k \in 0..Len(t) : StrLen(SubSeq(t, 1, k)) = n

\* `&text[..n]`: the characters that make up the first n bytes
Prefix(t, n) ==
  SubSeq(t, 1, CHOOSE k \in 0..Len(t) : StrLen(SubSeq(t, 1, k)) = n)

Ellipsis == <<".", ".", ".">>

\* variant: the text is cut at max_len, before the marker is appended
ellipsize_CutAtMax(text, max_len) ==
  IF StrLen(text) > max_len
  THEN IF ~IsCharBoundary(text, max_len) THEN Err("panic")
       ELSE Ok(Prefix(text, max_len) \o Ellipsis)
  ELSE Ok(text)

\* ellipsize.  `max_len - 3` below 0 overflows usize: a debug build panics
\* on the subtraction, a release build wraps and panics on the slice; a cut
\* inside a character panics as well.
ellipsize(text, max_len) ==
  IF StrLen(text) > max_len
  THEN IF max_len < 3 \/ ~IsCharBoundary(text, max_len - 3) THEN Err("panic")
       ELSE Ok(Prefix(text, max_len - 3) \o Ellipsis)
  ELSE Ok(text)

\* `{:<width}`: pad with spaces on the right, never cut
PadRight(t, width) ==
  t \o [i \in 1..(IF Len(t) < width THEN width - Len(t) ELSE 0) |-> " "]

\* one `writeln!("{:<10} {:<30} {:<40} {:<10.2}", ..)` row of the table; the
\* two numeric columns are kept as numbers
TableRow(server) ==
  [id |-> server.id,
   sponsor |-> PadRight(server.sponsor, 30),
   name |-> PadRight(server.name, 40),
   distance_km |-> server.distance_km]

\* ServerList::format_table, and the same loop in main: the rows
format_table(list) == [i \in DOMAIN list |-> TableRow(list[i])]

Rep(c, n) == [i \in 1..n |-> c]

RECURSIVE SeqsUpTo(_, _)
SeqsUpTo(S, n) ==
  IF n = 0 THEN {<<>>}
  ELSE LET shorter == SeqsUpTo(S, n - 1) IN
    shorter \cup {Append(t, c) : t \in shorter, c \in S}

\* texts handed to ellipsize: every text up to MaxText characters and some
\* around the display limit of 20
LongTexts ==
  {Rep("a", 19) \o <<"b">>, Rep("a", 20) \o <<"b">>, Rep("b", 25),
   Rep("a", 16) \o <<"U+00E9", "b", "b", "b">>,
   Rep("a", 17) \o <<"U+00E9", "b", "b", "b">>}

Texts == SeqsUpTo(Alphabet, MaxText) \cup LongTexts

MaxLens == 0..(MaxText + 1) \cup {MAX_SPONSOR_LENGTH}

\* servers with display fields, for the table
TableServers ==
  {[id |-> 1, sponsor |-> <<"a", "b">>, name |-> <<"b">>, distance_km |-> 1],
   [id |-> 2, sponsor |-> Rep("a", 20), name |-> Rep("b", 20), distance_km |-> 1],
   [id |-> 3, sponsor |-> Rep("a", 21), name |-> <<"b">>, distance_km |-> 2],
   [id |-> 4, sponsor |-> <<"a">>, name |-> Rep("b", 45), distance_km |-> 3]}

TableLists == SeqsUpTo(TableServers, 2)

\* raw figures handed to the conversion
BpsInputs == {0, 1, 999999, 1000000, 1000001, 8500000, 42000000}

FmtIdle ==
  [op |-> "none", text |-> <<>>, max_len |-> 0, list |-> <<>>,
   bps |-> 0, bps2 |-> 0,
   outText |-> None, outTable |-> None, outDown |-> None, outUp |-> None]

\* ------------------------------------------------------------------- state
VARIABLES
  entry,       \* which entry point runs: SpeedTest::execute or the binary
  directory,   \* the remote server directory, sorted by distance
  args,        \* CliArgs: list, server, down, up
  config,      \* AppConfig: list, server, direction
  pc,          \* position of the single thread of control
  servers,     \* execute: the candidate list returned by select_server
  index,       \* execute: the loop index (0-based, as enumerate())
  test,        \* the SpeedTest of the current session: server, direction
  download,    \* run_test: Option<SpeedMeasurement>
  upload,      \* run_test: Option<SpeedMeasurement>
  sessErr,     \* the error a failed session returned
  outcome,     \* Option<Result<..>> returned by execute / do_test_config
  exitStatus,  \* process exit status of the binary, -1 while running
  trace,       \* history: network calls, engine calls, log lines, returns
  fmt          \* one call of a formatting or conversion function: its
               \* arguments and, once made, its result

mainVars == <<entry, directory, args, config, pc, servers, index, test,
              download, upload, sessErr, outcome, exitStatus, trace>>

vars == <<mainVars, fmt>>

NoServer == [id |-> 0, distance_km |-> 0]

NoTest == [server |-> NoServer, direction |-> "Both"]

\* a history entry about candidate i and the server handed to the engine
SEv(kind, i, srv, ok, bps) ==
  [kind |-> kind, index |-> i, server |-> srv, ok |-> ok, bps |-> bps]

\* a history entry that concerns no candidate server
Ev(kind, i, ok, bps) == SEv(kind, i, NoServer, ok, bps)

\* --------------------------------------------------------------- cli.rs
\* variant: both flags together are read as download only
build_BothIsDownload(a) ==
  [list |-> a.list,
   server |-> a.server,
   direction |-> CASE a.down -> "Download"
                   [] ~a.down /\ a.up -> "Upload"
                   [] OTHER -> "Both"]

\* AppConfigBuilder::build
build(a) ==
  [list |-> a.list,
   server |-> a.server,
   direction |-> CASE a.down /\ ~a.up -> "Download"
                   [] ~a.down /\ a.up -> "Upload"
                   [] OTHER -> "Both"]

\* ------------------------------------------------------------ server.rs
NetOutcomes == {"ok", "config_fail", "list_fail"}

\* variant: one entry more than asked for is kept
Take_OneMore(s, n) == SubSeq(s, 1, IF Len(s) < n + 1 THEN Len(s) ELSE n + 1)

Take(s, n) == SubSeq(s, 1, IF Len(s) < n THEN Len(s) ELSE n)

\* ServerList::get_servers: the calls it makes, in order
get_servers_calls(net) ==
  IF net = "config_fail" THEN <<Ev("get_configuration", -1, FALSE, 0)>>
  ELSE <<Ev("get_configuration", -1, TRUE, 0),
         Ev("get_server_list", -1, net = "ok", 0)>>

\* ServerList::get_servers: its result
get_servers(num, dir, net) ==
  IF net = "ok" THEN Ok(Take(dir, num)) ELSE Err("CatalogUnavailable")

\* variant: the id filter keeps every fetched server
select_server_NoFilter(server_id, dir, net) ==
  IF IsSome(server_id)
  THEN LET id == ParseU32(Unwrap(server_id)) IN
       IF ~id.ok THEN Err("InvalidServerId")
       ELSE LET all_servers == get_servers(TOP_X_NUM_SERVERS, dir, net) IN
            IF ~all_servers.ok THEN all_servers
            ELSE IF all_servers.val = <<>> THEN Err("ServerNotFound")
            ELSE Ok(all_servers.val)
  ELSE get_servers(DEFAULT_SERVER_COUNT, dir, net)

\* variant: the id is looked up in the whole directory
select_server_WholeDirectory(server_id, dir, net) ==
  IF IsSome(server_id)
  THEN LET id == ParseU32(Unwrap(server_id)) IN
       IF ~id.ok THEN Err("InvalidServerId")
       ELSE LET all_servers == get_servers(Len(dir), dir, net) IN
            IF ~all_servers.ok THEN all_servers
            ELSE LET filtered == SelectSeq(all_servers.val,
                                           LAMBDA s : s.id = id.val) IN
                 IF filtered = <<>> THEN Err("ServerNotFound")
                 ELSE Ok(filtered)
  ELSE get_servers(DEFAULT_SERVER_COUNT, dir, net)

\* ServerList::select_server: its result
select_server(server_id, dir, net) ==
  IF IsSome(server_id)
  THEN LET id == ParseU32(Unwrap(server_id)) IN
       IF ~id.ok THEN Err("InvalidServerId")
       ELSE LET all_servers == get_servers(TOP_X_NUM_SERVERS, dir, net) IN
            IF ~all_servers.ok THEN all_servers
            ELSE LET filtered == SelectSeq(all_servers.val,
                                           LAMBDA s : s.id = id.val) IN
                 IF filtered = <<>> THEN Err("ServerNotFound")
                 ELSE Ok(filtered)
  ELSE get_servers(DEFAULT_SERVER_COUNT, dir, net)

\* variant: the directory is fetched before the id is parsed
select_server_calls_FetchFirst(server_id, net) == get_servers_calls(net)

\* ServerList::select_server: the calls it makes, in order
select_server_calls(server_id, net) ==
  IF IsSome(server_id) /\ ~ParseU32(Unwrap(server_id)).ok THEN <<>>
  ELSE get_servers_calls(net)

\* -------------------------------------------------------- speed_test.rs
should_download(t) == t.direction \in {"Download", "Both"}

\* variant: Both is not recognised as asking for an upload
should_upload_OnlyUpload(t) == t.direction = "Upload"

should_upload(t) == t.direction \in {"Upload", "Both"}

\* variant: the divisor of kilobits is used
calculate_mbps_Kilo(bps) ==
  [whole |-> bps \div 1000, millionths |-> (bps % 1000) * 1000]

\* bps / MBPS_DIVISOR, kept exact as whole Mbps plus millionths
calculate_mbps(bps) ==
  [whole |-> bps \div MBPS_DIVISOR, millionths |-> bps % MBPS_DIVISOR]

\* variant: the last candidate is taken to have a successor
MoreRemain_Always(i, list) == i < Len(list)

\* variant: gives up one candidate early
MoreRemain_OffByOne(i, list) == i < Len(list) - 2

\* `index < servers.len() - 1`
MoreRemain(i, list) == i < Len(list) - 1

\* variant: walks the candidate list from the far end
Candidate_Reversed(list, i) == list[Len(list) - i]

\* `for (index, server) in servers.iter().enumerate()`: the element paired
\* with a 0-based index
Candidate(list, i) == list[i + 1]

\* variant: the error of an engine call is dropped
Try_Ignore(ok, cont) == cont

\* the `?` after an engine call inside run_test: carry on at `cont` on Ok,
\* leave run_test with the error otherwise
Try(ok, cont) == IF ok THEN cont ELSE "run_failed"

\* variant: the two measurements land in each other's field
RunResult_Swapped(e, t, dl, ul) ==
  IF e = "execute"
  THEN [server |-> t.server, download |-> ul, upload |-> dl]
  ELSE [server |-> NoServer, download |-> None, upload |-> None]

\* The value a successful run hands back: a SpeedTestResult from
\* SpeedTest::run_test, the unit value from Test::run_test.
RunResult(e, t, dl, ul) ==
  IF e = "execute"
  THEN [server |-> t.server, download |-> dl, upload |-> ul]
  ELSE [server |-> NoServer, download |-> None, upload |-> None]

\* -------------------------------------------------------------------- Init
Init ==
  /\ entry \in Entries
  /\ directory \in Directories
  /\ args \in [list : BOOLEAN, server : ServerArgs, down : BOOLEAN, up : BOOLEAN]
  /\ config = [list |-> FALSE, server |-> None, direction |-> "Both"]
  /\ pc = "build"
  /\ servers = <<>>
  /\ index = 0
  /\ test = NoTest
  /\ download = None
  /\ upload = None
  /\ sessErr = "-"
  /\ outcome = None
  /\ exitStatus = -1
  /\ trace = <<>>
  /\ fmt = FmtIdle

\* ----------------------------------------------------------------- actions
\* AppConfigBuilder::from_args(args).build(), then the entry point starts.
Build ==
  /\ pc = "build"
  /\ config' = build(args)
  /\ pc' = IF entry = "swifi_cli" THEN "main" ELSE "select"
  /\ UNCHANGED <<fmt, entry, directory, args, servers, index, test, download,
                 upload, sessErr, outcome, exitStatus, trace>>

\* main: `if config.list { list_servers()?; print table; return Ok(()) }`
MainList(net) ==
  /\ pc = "main"
  /\ config.list
  /\ LET r == get_servers(TOP_X_NUM_SERVERS, directory, net) IN
       /\ trace' = trace \o get_servers_calls(net)
                     \o (IF r.ok THEN <<Ev("print_table", -1, TRUE, 0)>> ELSE <<>>)
       /\ exitStatus' = IF r.ok THEN 0 ELSE 1
  /\ pc' = "exited"
  /\ UNCHANGED <<fmt, entry, directory, args, config, servers, index, test,
                 download, upload, sessErr, outcome>>

\* variant: the test also runs when the list flag is set
MainTest_IgnoreList ==
  /\ pc = "main"
  /\ pc' = "select"
  /\ UNCHANGED <<fmt, entry, directory, args, config, servers, index, test,
                 download, upload, sessErr, outcome, exitStatus, trace>>

\* main: the list flag is clear, do_test_config is called
MainTest ==
  /\ pc = "main"
  /\ ~config.list
  /\ pc' = "select"
  /\ UNCHANGED <<fmt, entry, directory, args, config, servers, index, test,
                 download, upload, sessErr, outcome, exitStatus, trace>>

\* main: `if let Err(e) = do_test_config(..) { eprintln!(..) }  Ok(())`
MainReport ==
  /\ pc = "returned"
  /\ entry = "swifi_cli"
  /\ trace' = IF Unwrap(outcome).ok THEN trace
              ELSE Append(trace, Ev("eprintln_error", -1, FALSE, 0))
  /\ exitStatus' = 0
  /\ pc' = "exited"
  /\ UNCHANGED <<fmt, entry, directory, args, config, servers, index, test,
                 download, upload, sessErr, outcome>>

\* execute: `let servers = ServerList::select_server(..)?;`
SelectServer(net) ==
  /\ pc = "select"
  /\ LET r == select_server(config.server, directory, net) IN
       /\ trace' = trace \o select_server_calls(config.server, net)
       /\ IF r.ok
          THEN /\ servers' = r.val
               /\ pc' = "check_empty"
               /\ UNCHANGED outcome
          ELSE /\ outcome' = Some(Err(r.err))
               /\ pc' = "returned"
               /\ UNCHANGED servers
  /\ UNCHANGED <<fmt, entry, directory, args, config, index, test, download,
                 upload, sessErr, exitStatus>>

\* variant: the emptiness check is missing
CheckEmpty_NoCheck ==
  /\ pc = "check_empty"
  /\ index' = 0
  /\ pc' = "loop"
  /\ UNCHANGED <<fmt, entry, directory, args, config, servers, test, download,
                 upload, sessErr, exitStatus, trace, outcome>>

\* execute: `if servers.is_empty() { error!(..); bail!(..) }`
CheckEmpty ==
  /\ pc = "check_empty"
  /\ IF servers = <<>>
     THEN /\ trace' = Append(trace, Ev("error_no_servers", -1, FALSE, 0))
          /\ outcome' = Some(Err("NoServersAvailable"))
          /\ pc' = "returned"
          /\ UNCHANGED index
     ELSE /\ index' = 0
          /\ pc' = "loop"
          /\ UNCHANGED <<trace, outcome>>
  /\ UNCHANGED <<fmt, entry, directory, args, config, servers, test, download,
                 upload, sessErr, exitStatus>>

\* variant: only the first session fetches the engine configuration
Run_FetchOnce(cfgOk) ==
  /\ pc = "loop"
  /\ index < Len(servers)
  /\ index > 0 => cfgOk
  /\ test' = [server |-> Candidate(servers, index),
               direction |-> config.direction]
  /\ trace' = trace \o <<SEv("session", index, test'.server, TRUE, 0)>>
       \o (IF index = 0
           THEN <<SEv("get_configuration", index, test'.server, cfgOk, 0)>>
           ELSE <<>>)
  /\ pc' = Try(cfgOk, "run_test")
  /\ sessErr' = IF cfgOk THEN sessErr ELSE "ConfigFailed"
  /\ UNCHANGED <<fmt, entry, directory, args, config, servers, index, download,
                 upload, outcome, exitStatus>>

\* execute: the loop head builds the session; run() fetches the engine
\* configuration and enters run_test
Run(cfgOk) ==
  /\ pc = "loop"
  /\ index < Len(servers)
  /\ test' = [server |-> Candidate(servers, index),
               direction |-> config.direction]
  /\ trace' = trace \o <<SEv("session", index, test'.server, TRUE, 0),
                         SEv("get_configuration", index, test'.server, cfgOk, 0)>>
  /\ pc' = Try(cfgOk, "run_test")
  /\ sessErr' = IF cfgOk THEN sessErr ELSE "ConfigFailed"
  /\ UNCHANGED <<fmt, entry, directory, args, config, servers, index, download,
                 upload, outcome, exitStatus>>

\* run_test: `if self.should_download() { run_download_test(..)` - the
\* engine's download transfer is entered
DownloadBegin ==
  /\ pc = "run_test"
  /\ should_download(test)
  /\ trace' = Append(trace, SEv("download_begin", index, test.server, TRUE, 0))
  /\ pc' = "downloading"
  /\ UNCHANGED <<fmt, entry, directory, args, config, servers, index, test,
                 download, upload, sessErr, outcome, exitStatus>>

\* variant: the download branch is not taken even when requested
SkipDownload_Always ==
  /\ pc = "run_test"
  /\ download' = None
  /\ pc' = "upload_step"
  /\ UNCHANGED <<fmt, entry, directory, args, config, servers, index, test,
                 upload, sessErr, outcome, exitStatus, trace>>

\* run_test: `} else { None }` for download
SkipDownload ==
  /\ pc = "run_test"
  /\ ~should_download(test)
  /\ download' = None
  /\ pc' = "upload_step"
  /\ UNCHANGED <<fmt, entry, directory, args, config, servers, index, test,
                 upload, sessErr, outcome, exitStatus, trace>>

\* run_download_test: the engine's download transfer returns.  flushOk says
\* whether every flush made by the progress hook succeeded; the hook of
\* Test::run_download_test unwraps the flush result.
DownloadEnd(ok, bps, flushOk) ==
  /\ pc = "downloading"
  /\ entry = "execute" => flushOk
  /\ ok \/ bps = 0
  /\ IF ~flushOk
     THEN /\ trace' = Append(trace, Ev("panic", index, FALSE, 0))
          /\ exitStatus' = 101
          /\ pc' = "exited"
          /\ UNCHANGED <<download, sessErr>>
     ELSE /\ trace' = Append(trace,
                          SEv("download_end", index, test.server, ok, bps))
          /\ UNCHANGED exitStatus
          /\ pc' = Try(ok, "upload_step")
          /\ download' = IF ok THEN Some(calculate_mbps(bps)) ELSE download
          /\ sessErr' = IF ok THEN sessErr ELSE "DownloadFailed"
  /\ UNCHANGED <<fmt, entry, directory, args, config, servers, index, test,
                 upload, outcome>>

\* run_test: `if self.should_upload() { run_upload_test(..)` - the engine's
\* upload transfer is entered
UploadBegin ==
  /\ pc = "upload_step"
  /\ should_upload(test)
  /\ trace' = Append(trace, SEv("upload_begin", index, test.server, TRUE, 0))
  /\ pc' = "uploading"
  /\ UNCHANGED <<fmt, entry, directory, args, config, servers, index, test,
                 download, upload, sessErr, outcome, exitStatus>>

\* run_test: `} else { None }` for upload
SkipUpload ==
  /\ pc = "upload_step"
  /\ ~should_upload(test)
  /\ upload' = None
  /\ pc' = "run_done"
  /\ UNCHANGED <<fmt, entry, directory, args, config, servers, index, test,
                 download, sessErr, outcome, exitStatus, trace>>

\* run_upload_test: the engine's upload transfer returns.  The hook of
\* Test::run_upload_test logs a failed flush and carries on.
UploadEnd(ok, bps, flushOk) ==
  /\ pc = "uploading"
  /\ entry = "execute" => flushOk
  /\ ok \/ bps = 0
  /\ trace' = trace
       \o (IF flushOk THEN <<>> ELSE <<Ev("flush_error", index, FALSE, 0)>>)
       \o <<SEv("upload_end", index, test.server, ok, bps)>>
  /\ pc' = Try(ok, "run_done")
  /\ upload' = IF ok THEN Some(calculate_mbps(bps)) ELSE upload
  /\ sessErr' = IF ok THEN sessErr ELSE "UploadFailed"
  /\ UNCHANGED <<fmt, entry, directory, args, config, servers, index, test,
                 download, outcome, exitStatus>>

\* variant: a success does not end the loop while candidates remain
RunOk_Continue ==
  /\ pc = "run_done"
  /\ trace' = Append(trace, Ev("run_ok", index, TRUE, 0))
  /\ IF MoreRemain(index, servers)
     THEN /\ index' = index + 1
          /\ pc' = "loop"
          /\ UNCHANGED outcome
     ELSE /\ outcome' = Some(Ok(RunResult(entry, test, download, upload)))
          /\ pc' = "returned"
          /\ UNCHANGED index
  /\ UNCHANGED <<fmt, entry, directory, args, config, servers, test,
                 download, upload, sessErr, exitStatus>>

\* run_test: `Ok(SpeedTestResult { .. })`, and execute's
\* `Ok(result) => return Ok(result)`
RunOk ==
  /\ pc = "run_done"
  /\ trace' = Append(trace, Ev("run_ok", index, TRUE, 0))
  /\ outcome' = Some(Ok(RunResult(entry, test, download, upload)))
  /\ pc' = "returned"
  /\ UNCHANGED <<fmt, entry, directory, args, config, servers, index, test,
                 download, upload, sessErr, exitStatus>>

\* variant: the failure of the last candidate does not end the run
RunErr_NoBail ==
  /\ pc = "run_failed"
  /\ trace' = trace \o <<Ev("run_err", index, FALSE, 0),
                         Ev("error_server", index, FALSE, 0),
                         Ev("warn_next", index, FALSE, 0)>>
  /\ index' = index + 1
  /\ pc' = "loop"
  /\ UNCHANGED <<fmt, entry, directory, args, config, servers, test, download,
                 upload, sessErr, outcome, exitStatus>>

\* variant: the notice about the next server is logged after every failure
RunErr_WarnAlways ==
  /\ pc = "run_failed"
  /\ IF MoreRemain(index, servers)
     THEN /\ trace' = trace \o <<Ev("run_err", index, FALSE, 0),
                                 Ev("error_server", index, FALSE, 0),
                                 Ev("warn_next", index, FALSE, 0)>>
          /\ index' = index + 1
          /\ pc' = "loop"
          /\ UNCHANGED outcome
     ELSE /\ trace' = trace \o <<Ev("run_err", index, FALSE, 0),
                                 Ev("error_server", index, FALSE, 0),
                                 Ev("warn_next", index, FALSE, 0),
                                 Ev("error_all", index, FALSE, 0)>>
          /\ outcome' = Some(Err("AllAttemptsFailed"))
          /\ pc' = "returned"
          /\ UNCHANGED index
  /\ UNCHANGED <<fmt, entry, directory, args, config, servers, test, download,
                 upload, sessErr, exitStatus>>

\* execute: the `Err(e) =>` arm of the match on test.run(..)
RunErr ==
  /\ pc = "run_failed"
  /\ IF MoreRemain(index, servers)
     THEN /\ trace' = trace \o <<Ev("run_err", index, FALSE, 0),
                                 Ev("error_server", index, FALSE, 0),
                                 Ev("warn_next", index, FALSE, 0)>>
          /\ index' = index + 1
          /\ pc' = "loop"
          /\ UNCHANGED outcome
     ELSE /\ trace' = trace \o <<Ev("run_err", index, FALSE, 0),
                                 Ev("error_server", index, FALSE, 0),
                                 Ev("error_all", index, FALSE, 0)>>
          /\ outcome' = Some(Err("AllAttemptsFailed"))
          /\ pc' = "returned"
          /\ UNCHANGED index
  /\ UNCHANGED <<fmt, entry, directory, args, config, servers, test, download,
                 upload, sessErr, exitStatus>>

\* execute: the statement after the `for` loop is reached when the loop
\* runs out of candidates without a return or bail
LoopFellThrough == pc = "loop" /\ ~(index < Len(servers))

Next ==
  \/ Build
  \/ \E net \in NetOutcomes : MainList(net)
  \/ MainTest
  \/ MainReport
  \/ \E net \in NetOutcomes : SelectServer(net)
  \/ CheckEmpty
  \/ \E cfgOk \in BOOLEAN : Run(cfgOk)
  \/ DownloadBegin
  \/ SkipDownload
  \/ \E ok \in BOOLEAN, bps \in BpsValues \cup {0}, flushOk \in BOOLEAN :
       DownloadEnd(ok, bps, flushOk)
  \/ UploadBegin
  \/ SkipUpload
  \/ \E ok \in BOOLEAN, bps \in BpsValues \cup {0}, flushOk \in BOOLEAN :
       UploadEnd(ok, bps, flushOk)
  \/ RunOk
  \/ RunErr

Spec == Init /\ [][Next]_vars

\* The single thread of control is never suspended for good: every catalog
\* call and every engine call returns, and the code between calls runs.
FairSpec == Spec /\ WF_vars(Next)

TypeOK ==
  /\ pc \in {"build", "main", "select", "check_empty", "loop", "run_test",
             "downloading", "upload_step", "uploading", "run_done",
             "run_failed", "returned", "exited"}
  /\ index \in 0..MaxCatalog
  /\ exitStatus \in {-1, 0, 1, 101}

\* ------------------------------------------ formatting and conversion calls
\* impl Display for Server: the two display fields
DisplayFields(server) ==
  [sponsor |-> ellipsize(server.sponsor, MAX_SPONSOR_LENGTH),
   name |-> ellipsize(server.name, MAX_NAME_LENGTH)]

FmtInputs ==
  {[FmtIdle EXCEPT !.op = "ellipsize", !.text = t, !.max_len = m] :
     t \in Texts, m \in MaxLens}
    \cup {[FmtIdle EXCEPT !.op = "table", !.list = l] : l \in TableLists}
    \cup {[FmtIdle EXCEPT !.op = "display", !.list = <<sv>>] :
            sv \in TableServers}
    \cup {[FmtIdle EXCEPT !.op = "mbps", !.bps = b, !.bps2 = c] :
            b \in BpsInputs, c \in BpsInputs}

InitFmt ==
  /\ entry = "execute"
  /\ directory = <<>>
  /\ args = [list |-> FALSE, server |-> None, down |-> FALSE, up |-> FALSE]
  /\ config = [list |-> FALSE, server |-> None, direction |-> "Both"]
  /\ pc = "fmt"
  /\ servers = <<>>
  /\ index = 0
  /\ test = NoTest
  /\ download = None
  /\ upload = None
  /\ sessErr = "-"
  /\ outcome = None
  /\ exitStatus = -1
  /\ trace = <<>>
  /\ fmt \in FmtInputs

\* a call of ellipsize(text, max_len)
Ellipsize ==
  /\ pc = "fmt"
  /\ fmt.op = "ellipsize"
  /\ fmt.outText = None
  /\ fmt' = [fmt EXCEPT !.outText = Some(ellipsize(fmt.text, fmt.max_len))]
  /\ UNCHANGED mainVars

\* a call of Server's Display::fmt
Display ==
  /\ pc = "fmt"
  /\ fmt.op = "display"
  /\ fmt.outTable = None
  /\ fmt' = [fmt EXCEPT !.outTable = Some(DisplayFields(fmt.list[1]))]
  /\ UNCHANGED mainVars

\* a call of ServerList::format_table (main prints the same rows)
FormatTable ==
  /\ pc = "fmt"
  /\ fmt.op = "table"
  /\ fmt.outTable = None
  /\ fmt' = [fmt EXCEPT !.outTable = Some(format_table(fmt.list))]
  /\ UNCHANGED mainVars

\* run_download_test: `SpeedMeasurement { mbps: calculate_mbps(..) }`, for
\* two figures
MeasureDownload ==
  /\ pc = "fmt"
  /\ fmt.op = "mbps"
  /\ fmt.outDown = None
  /\ fmt' = [fmt EXCEPT !.outDown =
               Some(<<calculate_mbps(fmt.bps), calculate_mbps(fmt.bps2)>>)]
  /\ UNCHANGED mainVars

\* run_upload_test: `SpeedMeasurement { mbps: calculate_mbps(..) }`, for
\* two figures
MeasureUpload ==
  /\ pc = "fmt"
  /\ fmt.op = "mbps"
  /\ fmt.outUp = None
  /\ fmt' = [fmt EXCEPT !.outUp =
               Some(<<calculate_mbps(fmt.bps), calculate_mbps(fmt.bps2)>>)]
  /\ UNCHANGED mainVars

NextFmt ==
  \/ Ellipsize
  \/ Display
  \/ FormatTable
  \/ MeasureDownload
  \/ MeasureUpload

SpecFmt == InitFmt /\ [][NextFmt]_vars

\* ------------------------------------------------- reading the history
Pos == DOMAIN trace

At(kind) == {p \in Pos : trace[p].kind = kind}

AtFor(kind, i) == {p \in Pos : trace[p].kind = kind /\ trace[p].index = i}

\* entries made on behalf of a session: its start, its configuration
\* fetch and its engine transfers
SessionKinds == {"session", "get_configuration", "download_begin",
                 "download_end", "upload_begin", "upload_end"}

IsSessionEv(e) == e.kind \in SessionKinds /\ e.index >= 0

Returned == IsSome(outcome)

ReturnedOk == IsSome(outcome) /\ Unwrap(outcome).ok

ReturnedErr(e) ==
  IsSome(outcome) /\ ~Unwrap(outcome).ok /\ Unwrap(outcome).err = e

\* ------------------------------------------------------------------ claims
\* C1: once a candidate's session has succeeded, no session and no engine
\* call is started any more, and none was ever made for a later candidate.
C1_FirstSuccessWins ==
  \A p \in At("run_ok") : \A q \in Pos :
    IsSessionEv(trace[q]) => q < p /\ trace[q].index <= trace[p].index

\* a session succeeded while later candidates were still untried
C1_Witness ==
  /\ ReturnedOk
  /\ index >= 1
  /\ Len(servers) > index + 1

\* C2: when candidates 0..k-1 fail and candidate k succeeds, execute
\* returns Ok with candidate k as server and with the download and upload
\* figures the engine reported for candidate k; each earlier failure was
\* logged and none of them is returned.
MbpsOf(e) == e.bps

MeasuredFor(kindEnd, k, field) ==
  IF AtFor(kindEnd, k) = {} THEN field = None
  ELSE /\ IsSome(field)
       /\ \A p \in AtFor(kindEnd, k) :
            Unwrap(field).whole * MBPS_DIVISOR + Unwrap(field).millionths
              = MbpsOf(trace[p])

C2_ReturnsFirstSuccess ==
  \A p \in At("run_ok") :
    LET k == trace[p].index IN
      /\ ReturnedOk
      /\ \A j \in 0..(k - 1) :
           AtFor("run_err", j) # {} /\ AtFor("error_server", j) # {}
      /\ entry = "execute" =>
           /\ Unwrap(outcome).val.server = servers[k + 1]
           /\ MeasuredFor("download_end", k, Unwrap(outcome).val.download)
           /\ MeasuredFor("upload_end", k, Unwrap(outcome).val.upload)

\* the second candidate succeeded after the first one's download had
\* succeeded with a different figure and its upload had failed
C2_Witness ==
  /\ ReturnedOk
  /\ entry = "execute"
  /\ index = 1
  /\ \E p \in AtFor("download_end", 0), q \in AtFor("download_end", 1) :
       trace[p].ok /\ trace[p].bps # trace[q].bps
  /\ \E p \in AtFor("upload_end", 0) : ~trace[p].ok
  /\ Unwrap(outcome).val.download # Unwrap(outcome).val.upload

\* C3: with N >= 1 candidates whose sessions all fail, execute fails with
\* AllAttemptsFailed after exactly N session attempts.
C3_ExhaustionAfterN ==
  /\ ReturnedErr("AllAttemptsFailed") =>
       /\ Len(servers) >= 1
       /\ Cardinality(At("session")) = Len(servers)
       /\ Cardinality(At("run_err")) = Len(servers)
  /\ (Len(servers) >= 1 /\ Cardinality(At("run_err")) = Len(servers)) =>
       /\ Cardinality(At("session")) = Len(servers)
       /\ ReturnedErr("AllAttemptsFailed")

\* three candidates were tried and all three failed
C3_Witness ==
  /\ ReturnedErr("AllAttemptsFailed")
  /\ Len(servers) = 3
  /\ Cardinality(At("run_err")) = 3

\* C4: candidates are attempted in the order select_server returned them,
\* each at most once, and a session starts only after the previous
\* candidate's session has returned a failure.
C4_LinearFallback ==
  \A p \in At("session") :
    LET i == trace[p].index IN
      /\ Cardinality({q \in At("session") : q < p}) = i
      /\ i < Len(servers)
      /\ trace[p].server = servers[i + 1]
      /\ \A q \in At("session") :
           q < p => \E r \in AtFor("run_err", trace[q].index) : q < r /\ r < p

\* the third candidate's session has started
C4_Witness ==
  /\ AtFor("session", 2) # {}
  /\ servers[1] # servers[3]

\* C5: an empty candidate list from a successful select_server makes
\* execute fail at once with NoServersAvailable, with no session and no
\* engine call.
C5_EmptyIsTerminal ==
  /\ [][(pc = "check_empty" /\ servers = <<>>)
          => /\ outcome' = Some(Err("NoServersAvailable"))
             /\ pc' = "returned"
             /\ \A p \in DOMAIN trace' : ~IsSessionEv(trace'[p])]_vars
  /\ [](ReturnedErr("NoServersAvailable") =>
          /\ servers = <<>>
          /\ pc \in {"returned", "exited"}
          /\ \A p \in Pos : ~IsSessionEv(trace[p]))

\* the directory was fetched and held no server
C5_Witness ==
  /\ ReturnedErr("NoServersAvailable")
  /\ \E p \in At("get_server_list") : trace[p].ok

\* C6: a successful session has called the engine exactly once for each
\* requested direction and never for the other one, and its result has
\* download present iff the direction is Download or Both, upload present
\* iff it is Upload or Both.
Once(kind, k, wanted) ==
  Cardinality(AtFor(kind, k)) = IF wanted THEN 1 ELSE 0

C6_OneCallPerDirection ==
  \A p \in At("run_ok") :
    LET k == trace[p].index
        wantDownload == config.direction \in {"Download", "Both"}
        wantUpload == config.direction \in {"Upload", "Both"}
    IN /\ Once("download_begin", k, wantDownload)
       /\ Once("download_end", k, wantDownload)
       /\ Once("upload_begin", k, wantUpload)
       /\ Once("upload_end", k, wantUpload)
       /\ entry = "execute" =>
            /\ IsSome(Unwrap(outcome).val.download) <=> wantDownload
            /\ IsSome(Unwrap(outcome).val.upload) <=> wantUpload

\* a download-only session succeeded on the second candidate, whose
\* predecessor had failed
C6_Witness ==
  /\ ReturnedOk
  /\ entry = "execute"
  /\ config.direction = "Download"
  /\ index = 1

\* C7: a failed engine call ends the session at once with the error of
\* that direction: nothing of the session follows it, after a failed
\* download no upload is started, and no transfer is made twice in one
\* session.
FailsAtOnce(kindEnd, e) ==
  \A p \in At(kindEnd) :
    ~trace[p].ok =>
      IF p = Len(trace)
      THEN pc = "run_failed" /\ sessErr = e
      ELSE trace[p + 1].kind = "run_err" /\ trace[p + 1].index = trace[p].index

C7_FailedDirectionAborts ==
  /\ FailsAtOnce("download_end", "DownloadFailed")
  /\ FailsAtOnce("upload_end", "UploadFailed")
  /\ \A p \in At("download_end") :
       ~trace[p].ok => AtFor("upload_begin", trace[p].index) = {}
  /\ \A k \in 0..MaxCatalog :
       /\ Cardinality(AtFor("download_begin", k)) <= 1
       /\ Cardinality(AtFor("upload_begin", k)) <= 1

\* with direction Both the download of the first candidate failed and the
\* orchestrator has moved on
C7_Witness ==
  /\ config.direction = "Both"
  /\ \E p \in AtFor("download_end", 0) : ~trace[p].ok
  /\ AtFor("run_err", 0) # {}
  /\ pc = "loop"

\* C8: with direction Both the upload transfer is entered only after the
\* download transfer of the same session has returned successfully; a
\* transfer that was entered returns before anything else happens.
C8_DownloadBeforeUpload ==
  /\ \A p \in At("upload_begin") :
       config.direction = "Both" =>
         /\ \E q \in AtFor("download_end", trace[p].index) :
              q < p /\ trace[q].ok
         /\ \A q \in AtFor("download_begin", trace[p].index) : q < p
         /\ \A q \in AtFor("download_end", trace[p].index) : q < p
  /\ \A p \in At("download_begin") :
       IF p = Len(trace) THEN pc = "downloading"
       ELSE trace[p + 1].kind \in {"download_end", "panic"}
  /\ \A p \in At("upload_begin") :
       IF p = Len(trace) THEN pc = "uploading"
       ELSE trace[p + 1].kind \in {"upload_end", "flush_error"}

\* with direction Both an upload is in progress
C8_Witness ==
  /\ config.direction = "Both"
  /\ pc = "uploading"

\* C9: with a parseable requested id and a directory without repeated
\* ids, at most one session is started, it runs against the server with
\* that id, and its failure ends the run with AllAttemptsFailed.
NoDupIds(dir) ==
  \A i, j \in DOMAIN dir : dir[i].id = dir[j].id => i = j

C9_ExplicitIdNoFallback ==
  (pc # "build" /\ IsSome(config.server)
     /\ ParseU32(Unwrap(config.server)).ok /\ NoDupIds(directory))
    => /\ Cardinality(At("session")) <= 1
       /\ \A p \in At("session") :
            trace[p].server.id = ParseU32(Unwrap(config.server)).val
       /\ At("run_err") # {} => ReturnedErr("AllAttemptsFailed")

\* server 3 was requested from a directory of several distinct servers and
\* its session failed
C9_Witness ==
  /\ config.server = Some(<<"3">>)
  /\ NoDupIds(directory)
  /\ Len(directory) >= 4
  /\ At("run_err") # {}
  /\ ReturnedErr("AllAttemptsFailed")

\* C10: a requested id that is not a decimal numeral makes select_server
\* fail with InvalidServerId before any network call, and execute starts
\* no session.
IsNumeral(s) ==
  LET body == IF s # <<>> /\ Head(s) = "+" THEN Tail(s) ELSE s IN
    body # <<>> /\ \A i \in DOMAIN body : body[i] \in DigitChars

NetworkKinds == SessionKinds \cup {"get_server_list"}

C10_InvalidIdNoNetwork ==
  (pc \notin {"build", "main", "select"}
     /\ ~(entry = "swifi_cli" /\ config.list)
     /\ IsSome(config.server) /\ ~IsNumeral(Unwrap(config.server)))
    => /\ ReturnedErr("InvalidServerId")
       /\ \A p \in Pos : trace[p].kind \notin NetworkKinds

\* the id "abc" was rejected
C10_Witness ==
  /\ ReturnedErr("InvalidServerId")
  /\ config.server = Some(<<"a", "b", "c">>)

\* C11: with a parseable requested id and a fetched directory, select_server
\* fails with ServerNotFound whenever none of the 10 nearest servers has
\* that id, also when a farther server has it; a requested id never yields
\* an empty candidate list.
SelectRan ==
  /\ pc \notin {"build", "main", "select"}
  /\ ~(entry = "swifi_cli" /\ config.list)

DirectoryFetched == \E p \in At("get_server_list") : trace[p].ok

InNearest(n, id) ==
  \E i \in DOMAIN directory : i <= n /\ directory[i].id = id

C11_NotAmongNearestTen ==
  (SelectRan /\ IsSome(config.server) /\ ParseU32(Unwrap(config.server)).ok)
    => /\ (DirectoryFetched
             /\ ~InNearest(10, ParseU32(Unwrap(config.server)).val))
            => ReturnedErr("ServerNotFound")
       /\ pc = "check_empty" => servers # <<>>
       /\ ~ReturnedErr("NoServersAvailable")

\* server 11 was requested, the directory has it in eleventh place, and the
\* run ended with ServerNotFound
C11_Witness ==
  /\ config.server = Some(<<"1", "1">>)
  /\ Len(directory) >= 11
  /\ directory[11].id = 11
  /\ ReturnedErr("ServerNotFound")

\* C12: with no requested id, select_server returns the first min(3, total)
\* entries of the distance-sorted directory, hence at most 3 servers in
\* non-decreasing order of distance.
Min(a, b) == IF a < b THEN a ELSE b

C12_NearestThree ==
  (SelectRan /\ config.server = None /\ DirectoryFetched)
    => /\ Len(servers) <= 3
       /\ Len(servers) = Min(3, Len(directory))
       /\ \A i \in DOMAIN servers : servers[i] = directory[i]
       /\ \A i, j \in DOMAIN servers :
            i <= j => servers[i].distance_km <= servers[j].distance_km

\* three candidates were taken from a directory of more than three servers
C12_Witness ==
  /\ SelectRan
  /\ config.server = None
  /\ Len(directory) > 3
  /\ Len(servers) = 3
  /\ pc = "loop"

\* C13: the direction is Both for no flag or both flags, Download for
\* --down alone, Upload for --up alone, and every session of the run is
\* built with that direction.
DirectionOf(down, up) ==
  IF down = up THEN "Both" ELSE IF down THEN "Download" ELSE "Upload"

C13_DirectionResolution ==
  pc # "build" =>
    /\ config.direction = DirectionOf(args.down, args.up)
    /\ At("session") # {} => test.direction = DirectionOf(args.down, args.up)
    /\ \A p \in At("download_begin") :
         DirectionOf(args.down, args.up) \in {"Download", "Both"}
    /\ \A p \in At("upload_begin") :
         DirectionOf(args.down, args.up) \in {"Upload", "Both"}

\* both flags were given and the second candidate's upload has started
C13_Witness ==
  /\ args.down /\ args.up
  /\ AtFor("upload_begin", 1) # {}

\* C14: when the orchestration fails the binary reports the error and
\* exits with a non-zero status; it exits with status 0 only after a
\* successful orchestration or after printing the list.
C14_FailureExitsNonZero ==
  (entry = "swifi_cli" /\ pc = "exited") =>
    /\ (Returned /\ ~ReturnedOk) =>
         exitStatus # 0 /\ At("eprintln_error") # {}
    /\ exitStatus = 0 => ReturnedOk \/ At("print_table") # {}

\* C15: with the list flag set the binary fetches the directory, prints
\* the table and exits; select_server is never called, no session is
\* started and no transfer is made, whatever the other flags are.
C15_ListShortCircuits ==
  (entry = "swifi_cli" /\ config.list) =>
    /\ pc \in {"main", "exited"}
    /\ outcome = None
    /\ servers = <<>>
    /\ \A p \in Pos : ~IsSessionEv(trace[p])
    /\ Cardinality(At("get_server_list")) <= 1
    /\ (pc = "exited" /\ DirectoryFetched) =>
         At("print_table") # {} /\ exitStatus = 0

\* the table was printed although a server id and both direction flags
\* were given as well
C15_Witness ==
  /\ entry = "swifi_cli"
  /\ args.list /\ args.down /\ args.up /\ IsSome(args.server)
  /\ pc = "exited"
  /\ At("print_table") # {}

\* C16: a failed flush of the progress marker never panics or fails the
\* session, in either direction: the transfer goes on to its own outcome.
C16_FlushFailureHarmless ==
  /\ At("panic") = {}
  /\ \A p \in At("flush_error") :
       p < Len(trace) /\ trace[p + 1].kind = "upload_end"

\* C20: every failed session is followed by its failure log line; when
\* candidates remain, the "trying next server" notice comes next and the
\* next session starts only after it; after the last candidate the final
\* message comes next and no notice is logged.
C20_FallbackLogOrder ==
  \A p \in At("run_err") :
    LET i == trace[p].index IN
      /\ p + 2 <= Len(trace)
      /\ trace[p + 1].kind = "error_server" /\ trace[p + 1].index = i
      /\ IF i < Len(servers) - 1
         THEN /\ trace[p + 2].kind = "warn_next"
              /\ AtFor("error_all", i) = {}
              /\ \A q \in AtFor("session", i + 1) : q > p + 2
              /\ p + 3 <= Len(trace) => trace[p + 3].kind = "session"
         ELSE /\ trace[p + 2].kind = "error_all"
              /\ AtFor("warn_next", i) = {}
              /\ \A q \in Pos : q > p + 2 => trace[q].kind = "eprintln_error"

\* two candidates failed in turn: a notice after the first, the final
\* message after the second
C20_Witness ==
  /\ Len(servers) = 2
  /\ AtFor("warn_next", 0) # {}
  /\ AtFor("error_all", 1) # {}

\* C17: for every text t and maximum m, counted in
\* characters: if len(t) > m the result has length exactly m, ends with
\* "..." and starts with the first m-3 characters of t, also for m < 3;
\* if len(t) <= m the result is t.
EndsWithEllipsis(r) ==
  Len(r) >= 3 /\ SubSeq(r, Len(r) - 2, Len(r)) = Ellipsis

C17_EllipsizeAsClaimed ==
  (fmt.op = "ellipsize" /\ IsSome(fmt.outText)) =>
    LET t == fmt.text
        m == fmt.max_len
        r == Unwrap(fmt.outText)
    IN IF Len(t) > m
       THEN /\ r.ok
            /\ Len(r.val) = m
            /\ EndsWithEllipsis(r.val)
            /\ \A i \in 1..(m - 3) : r.val[i] = t[i]
       ELSE r.ok /\ r.val = t

\* What ellipsize does instead (C17), with lengths counted in bytes: if
\* len(t) > m, m >= 3 and byte m-3 of t is a character boundary, the result
\* has length exactly m, ends with "..." and starts with the first m-3
\* bytes of t; if len(t) > m and m < 3 or the cut falls inside a character,
\* the call panics; if len(t) <= m the result is t.
CutIsBoundary(t, m) ==
  \E k \in 0..Len(t) : Len(ToBytes(SubSeq(t, 1, k))) = m - 3

C17_EllipsizeBytes ==
  (fmt.op = "ellipsize" /\ IsSome(fmt.outText)) =>
    LET t == fmt.text
        m == fmt.max_len
        r == Unwrap(fmt.outText)
        n == Len(ToBytes(t))
    IN IF n > m
       THEN IF m >= 3 /\ CutIsBoundary(t, m)
            THEN /\ r.ok
                 /\ Len(ToBytes(r.val)) = m
                 /\ EndsWithEllipsis(r.val)
                 /\ SubSeq(ToBytes(r.val), 1, m - 3)
                      = SubSeq(ToBytes(t), 1, m - 3)
            ELSE ~r.ok
       ELSE r.ok /\ r.val = t

\* a text of 21 characters, one of them two bytes long, was cut to 20 bytes
C17_Witness ==
  /\ fmt.op = "ellipsize"
  /\ IsSome(fmt.outText)
  /\ fmt.max_len = 20
  /\ Len(fmt.text) = 21
  /\ Len(ToBytes(fmt.text)) = 22
  /\ Unwrap(fmt.outText).ok

\* C18: every row of the table shows no more than 20 characters of the
\* sponsor and no more than 20 of the name, the rest being padding.
Shown(field) == Cardinality({i \in DOMAIN field : field[i] # " "})

C18_TableFieldsEllipsized ==
  (fmt.op = "table" /\ IsSome(fmt.outTable)) =>
    \A i \in DOMAIN Unwrap(fmt.outTable) :
      /\ Shown(Unwrap(fmt.outTable)[i].sponsor) <= 20
      /\ Shown(Unwrap(fmt.outTable)[i].name) <= 20

\* C19: the reported figure is bps / 1 000 000 exactly, 0 for 0, and
\* non-decreasing in bps; download and upload are converted alike.
MbpsExact(m, b) ==
  /\ m.whole * 1000000 + m.millionths = b
  /\ m.millionths \in 0..999999

MbpsLeq(m, n) ==
  m.whole < n.whole \/ (m.whole = n.whole /\ m.millionths <= n.millionths)

Converted(out) ==
  IsSome(out) =>
    LET m == Unwrap(out)[1]
        n == Unwrap(out)[2]
    IN /\ MbpsExact(m, fmt.bps)
       /\ MbpsExact(n, fmt.bps2)
       /\ fmt.bps = 0 => m = [whole |-> 0, millionths |-> 0]
       /\ fmt.bps <= fmt.bps2 => MbpsLeq(m, n)

C19_MbpsConversion ==
  fmt.op = "mbps" =>
    /\ Converted(fmt.outDown)
    /\ Converted(fmt.outUp)
    /\ (IsSome(fmt.outDown) /\ IsSome(fmt.outUp)) => fmt.outDown = fmt.outUp

\* 999999 and 1000001 bits per second were converted for both directions
C19_Witness ==
  /\ fmt.op = "mbps"
  /\ fmt.bps = 999999 /\ fmt.bps2 = 1000001
  /\ IsSome(fmt.outDown) /\ IsSome(fmt.outUp)

\* C21: provided every call returns, execute ends by returning exactly one
\* of success or failure - success iff a session succeeded - after at most
\* N sessions and at most 2*N engine transfers for N candidates.
Transfers == At("download_begin") \cup At("upload_begin")

C21_TerminatesOnce ==
  /\ [](entry = "execute" =>
          /\ Cardinality(At("session")) <= Len(servers)
          /\ Cardinality(Transfers) <= 2 * Len(servers)
          /\ Returned =>
               /\ pc = "returned"
               /\ ReturnedOk <=> At("run_ok") # {}
               /\ ~ReturnedOk <=> At("run_ok") = {})
  /\ [][entry = "execute" /\ Returned => UNCHANGED <<outcome, trace>>]_vars
  /\ (entry = "execute") ~> Returned

\* execute returned success from the third candidate after six transfers
C21_Witness ==
  /\ entry = "execute"
  /\ ReturnedOk
  /\ Len(servers) = 3
  /\ Cardinality(At("session")) = 3
  /\ Cardinality(Transfers) = 6

\* C22: the orchestrator returns success only after a session in which
\* every requested transfer succeeded, and the statement after the candidate
\* loop is never reached: neither the "loop finished" error of execute nor
\* the final Ok(()) of do_test_config is ever returned.
EndedOk(kindEnd, k) == \E p \in AtFor(kindEnd, k) : trace[p].ok

C22_NoFallThrough ==
  /\ ~LoopFellThrough
  /\ pc = "loop" => servers # <<>>
  /\ Returned /\ ~ReturnedOk =>
       Unwrap(outcome).err \in
         {"InvalidServerId", "CatalogUnavailable", "ServerNotFound",
          "NoServersAvailable", "AllAttemptsFailed"}
  /\ ReturnedOk =>
       \E p \in At("run_ok") :
         /\ p = Len(trace)
         /\ config.direction \in {"Download", "Both"}
              => EndedOk("download_end", trace[p].index)
         /\ config.direction \in {"Upload", "Both"}
              => EndedOk("upload_end", trace[p].index)

\* the loop is entered again after the second of three candidates failed
C22_Witness ==
  /\ pc = "loop"
  /\ index = 2
  /\ Len(servers) = 3

\* C23: every session fetches the engine configuration before any
\* transfer; a failed fetch ends the session with no transfer and counts
\* as the candidate's attempt: the next candidate follows, or
\* AllAttemptsFailed after the last.
C23_ConfigFetchPerSession ==
  /\ \A p \in At("session") :
       /\ p < Len(trace)
       /\ trace[p + 1].kind = "get_configuration"
       /\ trace[p + 1].index = trace[p].index
       /\ Cardinality(AtFor("get_configuration", trace[p].index)) = 1
  /\ \A p \in Transfers :
       \E q \in AtFor("get_configuration", trace[p].index) :
         q < p /\ trace[q].ok
  /\ \A p \in At("get_configuration") :
       (trace[p].index >= 0 /\ ~trace[p].ok) =>
         LET i == trace[p].index IN
           /\ AtFor("download_begin", i) = {} /\ AtFor("upload_begin", i) = {}
           /\ Cardinality(AtFor("session", i)) = 1
           /\ IF p = Len(trace)
              THEN pc = "run_failed" /\ sessErr = "ConfigFailed"
              ELSE /\ trace[p + 1].kind = "run_err" /\ trace[p + 1].index = i
                   /\ IF i < Len(servers) - 1
                      THEN /\ trace[p + 3].kind = "warn_next"
                           /\ p + 3 = Len(trace) =>
                                pc = "loop" /\ index = i + 1
                           /\ p + 3 < Len(trace) =>
                                /\ trace[p + 4].kind = "session"
                                /\ trace[p + 4].index = i + 1
                           /\ \A q \in At("session") :
                                q > p => trace[q].index > i
                      ELSE /\ trace[p + 3].kind = "error_all"
                           /\ ReturnedErr("AllAttemptsFailed")

\* the first candidate's configuration fetch failed and the second
\* candidate's session has fetched its own
C23_Witness ==
  /\ \E p \in AtFor("get_configuration", 0) : ~trace[p].ok
  /\ \E p \in AtFor("get_configuration", 1) : trace[p].ok
  /\ AtFor("download_begin", 1) # {}

====
